---- MODULE Spec2Model ----
(***************************************************************************)
(* Model of the figure scripts under src/figures/background:               *)
(*   challenge1.py  - CPU histogram with portfolio splits                  *)
(*   challenge2.py  - eviction / stranding schematics, ratio histogram     *)
(*   variation.py   - two-panel usage-variation figure                     *)
(*                                                                         *)
(* Numbers.  TLC has no reals, so every floating-point quantity is kept in *)
(* fixed point.  Usage values, ratios, bin edges and the mean and sigma of *)
(* a log-normal are integers in units of 1/1000; standard-normal variates  *)
(* are in tenths of a sigma; the geometry of the schematic is in tenths.   *)
(* Floating-point rounding is not modelled.                                *)
(***************************************************************************)
EXTENDS Integers, Sequences, FiniteSets, TLC

VARIABLES
    \* ---- plot_figure axis limits (variation.py:128-132)
    qA,        \* the smaller sample array handed to np.quantile
    qB,        \* the larger sample array handed to np.quantile
    qXmaxA,    \* np.quantile(qA, 0.995) * 1000, or -1 before the call
    qXmaxB,    \* np.quantile(qB, 0.995) * 1000, or -1 before the call
    qpc        \* "idle" | "call" | "done"

varsQ == <<qA, qB, qXmaxA, qXmaxB, qpc>>

VARIABLES
    \* ---- the file system the scripts write to
    dirs,        \* existing directories, as resolved component sequences
    unwritable,  \* the directories in which no entry can be created
    files,       \* resolved file path -> content of the file
    styleOK,     \* whether matplotlib knows the style "seaborn-v0_8-whitegrid"
    \* ---- the running interpreter
    script,      \* "none" | a script name | "call" (a function called directly)
    pc,          \* position in the script
    fn,          \* the function being executed, "" outside any
    path,        \* its save_path / out_path argument
    fig,         \* challenge2.main: number of the figure being produced
    mi,          \* draw_eviction_amplification: index of the marking loop
    marks,       \* small sandboxes that received the eviction mark
    faultAt,     \* the position at which a fault was raised, "" when none
    ran,         \* scripts started so far
    finished,    \* scripts that ran to their last line
    wrote        \* log of <<script, resolved path>> for every file written

varsR == <<dirs, unwritable, files, styleOK, script, pc, fn, path, fig, mi,
           marks, faultAt, ran, finished, wrote>>

VARIABLES
    \* ---- the sample arrays of the scripts, one interpreter per run
    mode,        \* "any": a draw may return any outcome of the generator;
                 \* "prng": it returns what the seeded generator produces
    entropy,     \* run -> what the operating system would seed a generator with
    st           \* run -> the interpreter's variables (a record, see Fresh)

varsS == <<mode, entropy, st>>
vars == <<varsQ, varsR, varsS>>
othersQ == <<varsR, varsS>>
othersR == <<varsQ, varsS>>
othersS == <<varsQ, varsR>>

(***************************************************************************)
(* Bounds of the model.                                                    *)
(***************************************************************************)
MaxQLen == 4        \* longest sample array handed to np.quantile
MaxQVal == 3        \* sample values handed to np.quantile are 0..MaxQVal
ZMax == 6           \* largest standard-normal variate drawn, in sigmas
ZMany == 1          \* the same inside synth_many_functions_std
ClusterCap == 1     \* samples drawn per cluster of challenge1.py (of 90/90/60)
RatioN == 20        \* n of draw_cpu_mem_ratio_hist (of 2000)
SingleN == 1        \* n of synth_single_function_cpu_usage (of 6000)
NumFunctions == 1   \* num_functions of synth_many_functions_std (of 500)
MinInv == 2         \* min_inv of synth_many_functions_std (of 300)
MaxInv == 3         \* max_inv of synth_many_functions_std (of 5000)

(***************************************************************************)
(* Generic helpers.                                                        *)
(***************************************************************************)
Min2(a, b) == IF a <= b THEN a ELSE b
Max2(a, b) == IF a >= b THEN a ELSE b

RECURSIVE SeqSum(_)
SeqSum(s) == IF s = <<>> THEN 0 ELSE Head(s) + SeqSum(Tail(s))

RECURSIVE SeqMax(_)
SeqMax(s) == IF Len(s) = 1 THEN s[1] ELSE Max2(Head(s), SeqMax(Tail(s)))

\* Insert v into the ascending sequence s.
RECURSIVE Insert(_, _)
Insert(s, v) ==
    IF s = <<>> THEN <<v>>
    ELSE IF v <= Head(s) THEN <<v>> \o s
    ELSE <<Head(s)>> \o Insert(Tail(s), v)

\* np.sort: ascending order.
RECURSIVE Sort(_)
Sort(s) == IF s = <<>> THEN <<>> ELSE Insert(Sort(Tail(s)), Head(s))

IsPrefix(a, b) == Len(a) <= Len(b) /\ SubSeq(b, 1, Len(a)) = a

\* All sequences over S of length lo..hi.
SeqsOf(S, lo, hi) == UNION {[1..n -> S] : n \in lo..hi}

(***************************************************************************)
(* np.quantile(a, 0.995), default method "linear": with the sorted array   *)
(* s (0-based) and h = (n-1)*0.995, the result is                          *)
(*     s[floor h] + frac(h) * (s[floor h + 1] - s[floor h]).               *)
(* The operator returns the result times 1000, which is an exact integer:  *)
(* (n-1)*995 = 1000*i + r, result*1000 = 1000*s[i] + r*(s[i+1]-s[i]).      *)
(***************************************************************************)
LerpBackwards(lo, hi, r) == 1000 * lo - r * (hi - lo)

Lerp(lo, hi, r) == 1000 * lo + r * (hi - lo)

Quantile995(a) ==
    LET s == Sort(a)
        n == Len(s)
        h == (n - 1) * 995
        i == h \div 1000
        r == h % 1000
    IN  IF i + 2 <= n THEN Lerp(s[i + 1], s[i + 2], r)
        ELSE 1000 * s[i + 1]

(***************************************************************************)
(* Specification SpecQuantile: plot_figure's axis limit on two sample      *)
(* arrays, the first a prefix of the second.                               *)
(***************************************************************************)
IdleQ ==
    /\ qA = <<>> /\ qB = <<>> /\ qXmaxA = -1 /\ qXmaxB = -1 /\ qpc = "idle"

InitQ ==
    /\ qB \in SeqsOf(0..MaxQVal, 1, MaxQLen)
    /\ \E k \in 1..MaxQLen : k <= Len(qB) /\ qA = SubSeq(qB, 1, k)
    /\ qXmaxA = -1
    /\ qXmaxB = -1
    /\ qpc = "call"

\* variation.py:129 / :131 on the smaller array.
PlotLimitA ==
    /\ qpc = "call"
    /\ qXmaxA' = Quantile995(qA)
    /\ qpc' = "callB"
    /\ UNCHANGED <<qA, qB, qXmaxB>>
    /\ UNCHANGED othersQ

\* The same line on the larger array.
PlotLimitB ==
    /\ qpc = "callB"
    /\ qXmaxB' = Quantile995(qB)
    /\ qpc' = "done"
    /\ UNCHANGED <<qA, qB, qXmaxA>>
    /\ UNCHANGED othersQ

NextQ == PlotLimitA \/ PlotLimitB

(***************************************************************************)
(* Paths.  A path is the sequence of its components; "./name" is           *)
(* <<".", "name">>.                                                        *)
(***************************************************************************)
\* os.path.join(d, name) for a directory written with a trailing slash.
PathJoin(d, name) == d \o <<name>>

\* os.path.dirname: everything before the last component.
Dirname(p) == SubSeq(p, 1, Len(p) - 1)

\* The directory or file a path names: "." components name nothing new.
Resolve(p) == SelectSeq(p, LAMBDA c : c # ".")

\* A directory together with all the directories above it.
Ancestors(d) == {SubSeq(d, 1, i) : i \in 0..Len(d)}

\* The deepest directory on the way to d that exists (the working
\* directory, <<>>, always does).
DeepestExisting(d) ==
    LET have == {i \in 0..Len(d) : SubSeq(d, 1, i) \in dirs}
    IN  SubSeq(d, 1, CHOOSE i \in have : \A j \in have : j <= i)

\* os.makedirs(d, exist_ok=True) raises when a directory has to be created
\* inside one that cannot be written.
MakedirsFaults(d) ==
    /\ Resolve(d) \notin dirs
    /\ DeepestExisting(Resolve(d)) \in unwritable

\* The directories after os.makedirs(d, exist_ok=True) succeeded.
MakedirsResult(d) == dirs \cup Ancestors(Resolve(d))

\* savefig opens the file for writing: it raises when the parent directory
\* is missing (FileNotFoundError) or cannot be written (PermissionError).
SavefigFaults(p) ==
    \/ Resolve(Dirname(p)) \notin dirs
    \/ Resolve(Dirname(p)) \in unwritable

(***************************************************************************)
(* Embedded constants of the scripts.                                      *)
(***************************************************************************)
Scripts == {"challenge1", "challenge2", "variation"}

\* challenge1.py:6 and challenge2.py:9, "./"
OUT_DIR == <<".">>

\* challenge1.py:100 with the name of variation.py's figure.
Challenge1OutClash == PathJoin(OUT_DIR, "usage_variation.pdf")

\* challenge1.py:100
Challenge1Out == PathJoin(OUT_DIR, "challenge1_mix.pdf")

\* variation.py:82, the default save_path "./usage_variation.pdf"
DefaultSavePath == <<".", "usage_variation.pdf">>

\* challenge2.main without its third call.
MainFiguresTwoOnly ==
    << <<"draw_eviction_amplification",
         PathJoin(OUT_DIR, "challenge2_eviction_amplification.png")>>,
       <<"draw_resource_stranding",
         PathJoin(OUT_DIR, "challenge2_stranding.png")>> >>

\* challenge2.main: the calls it makes, in order, each with its out_path.
MainFigures ==
    << <<"draw_eviction_amplification",
         PathJoin(OUT_DIR, "challenge2_eviction_amplification.png")>>,
       <<"draw_resource_stranding",
         PathJoin(OUT_DIR, "challenge2_stranding.png")>>,
       <<"draw_cpu_mem_ratio_hist",
         PathJoin(OUT_DIR, "cpu_mem_ratio_hist.png")>> >>

\* The output files each script is meant to leave behind.
OutputsOf(s) ==
    CASE s = "challenge1" -> {Challenge1Out}
      [] s = "challenge2" -> {PathJoin(OUT_DIR, "challenge2_eviction_amplification.png"),
                              PathJoin(OUT_DIR, "challenge2_stranding.png"),
                              PathJoin(OUT_DIR, "cpu_mem_ratio_hist.png")}
      [] s = "variation"  -> {DefaultSavePath}
      [] OTHER -> {}

\* What each function draws: the content of the file it saves.
FigureOf(f) ==
    CASE f = "challenge1"                  -> "cpu_histogram_with_splits"
      [] f = "draw_eviction_amplification" -> "eviction_amplification"
      [] f = "draw_resource_stranding"     -> "resource_stranding"
      [] f = "draw_cpu_mem_ratio_hist"     -> "cpu_mem_ratio_hist"
      [] f = "plot_figure"                 -> "two_panel_usage_variation"

\* The first position of each function body.
EntryOf(f) ==
    CASE f = "draw_eviction_amplification" -> "ev_draw"
      [] f = "draw_resource_stranding"     -> "st_draw"
      [] f = "draw_cpu_mem_ratio_hist"     -> "rh_draw"
      [] f = "plot_figure"                 -> "pf_dirname"

\* draw_eviction_amplification's layout, in tenths.
small_w == 11
small_xs == <<2, 15, 28, 41>>
large_x == 60
overlap_x == large_x - 2

(***************************************************************************)
(* Faults.  No script has a try/except: a raised exception unwinds to the  *)
(* top level and the interpreter exits.                                    *)
(***************************************************************************)
\* A handler that swallows the exception and goes on with the next step.
AfterFaultSwallowed(next) == next

\* Where control is after a step raised: nowhere in the script.
AfterFault(next) == "faulted"

Raise(next) ==
    /\ pc' = AfterFault(next)
    /\ faultAt' = pc

(***************************************************************************)
(* Steps of the scripts.                                                   *)
(***************************************************************************)
IdleR ==
    /\ dirs = {<<>>} /\ unwritable = {} /\ files = <<>> /\ styleOK = TRUE
    /\ script = "none" /\ pc = "idle" /\ fn = "" /\ path = <<>> /\ fig = 0
    /\ mi = 0 /\ marks = {} /\ faultAt = "" /\ ran = {} /\ finished = {} /\ wrote = {}

\* The directories a path of the model may lie in.
DirUniverse == {<<>>, <<"out">>, <<"out", "sub">>}

InitR ==
    /\ dirs \in {{<<>>}, {<<>>, <<"out">>}, DirUniverse}
    /\ unwritable \in SUBSET dirs
    /\ files = <<>>
    /\ styleOK \in BOOLEAN
    /\ script = "none" /\ pc = "idle" /\ fn = "" /\ path = <<>> /\ fig = 0
    /\ mi = 0 /\ marks = {} /\ faultAt = "" /\ ran = {} /\ finished = {} /\ wrote = {}

Terminated == pc \in {"idle", "done", "faulted"}

\* `python <script>.py`: a fresh interpreter starts on the script's line 1.
StartScript(s) ==
    /\ Terminated
    /\ s \notin ran
    /\ script' = s
    /\ ran' = ran \cup {s}
    /\ pc' = CASE s = "challenge1" -> "c1_makedirs"
               [] s = "challenge2" -> "c2_makedirs"
               [] s = "variation"  -> "v_synth"
    /\ fn' = "" /\ path' = <<>> /\ fig' = 0 /\ mi' = 0 /\ marks' = {}
    /\ faultAt' = ""
    /\ UNCHANGED <<dirs, unwritable, files, styleOK, finished, wrote>>
    /\ UNCHANGED othersR

\* challenge1.py:7  os.makedirs(out_dir, exist_ok=True)
C1Makedirs ==
    /\ pc = "c1_makedirs"
    /\ IF MakedirsFaults(OUT_DIR)
       THEN Raise("c1_figure") /\ UNCHANGED dirs
       ELSE pc' = "c1_figure" /\ dirs' = MakedirsResult(OUT_DIR)
                              /\ UNCHANGED faultAt
    /\ UNCHANGED <<unwritable, files, styleOK, script, fn, path, fig, mi,
                   marks, ran, finished, wrote>>
    /\ UNCHANGED othersR

\* challenge1.py:9-100: the samples, the histogram, the decorations; none of
\* it touches the file system.  out_path is set on line 100.
C1Figure ==
    /\ pc = "c1_figure"
    /\ pc' = "savefig"
    /\ fn' = "challenge1"
    /\ path' = Challenge1Out
    /\ UNCHANGED <<dirs, unwritable, files, styleOK, script, fig, mi, marks,
                   faultAt, ran, finished, wrote>>
    /\ UNCHANGED othersR

\* challenge2.py:10  os.makedirs(OUT_DIR, exist_ok=True), run when the module
\* is loaded, whether as a script or for one of its functions.
C2Makedirs ==
    /\ pc = "c2_makedirs"
    /\ LET next == IF script = "call" THEN EntryOf(fn) ELSE "c2_main"
       IN  IF MakedirsFaults(OUT_DIR)
           THEN Raise(next) /\ UNCHANGED dirs
           ELSE pc' = next /\ dirs' = MakedirsResult(OUT_DIR)
                           /\ UNCHANGED faultAt
    /\ UNCHANGED <<unwritable, files, styleOK, script, fn, path, fig, mi,
                   marks, ran, finished, wrote>>
    /\ UNCHANGED othersR

\* challenge2.py:211-221  main: the next call, or the end of main.
C2Main ==
    /\ pc = "c2_main"
    /\ IF fig < Len(MainFigures)
       THEN /\ fig' = fig + 1
            /\ fn' = MainFigures[fig + 1][1]
            /\ path' = MainFigures[fig + 1][2]
            /\ pc' = EntryOf(MainFigures[fig + 1][1])
            /\ UNCHANGED finished
       ELSE /\ pc' = "done"
            /\ finished' = finished \cup {script}
            /\ UNCHANGED <<fig, fn, path>>
    /\ UNCHANGED <<dirs, unwritable, files, styleOK, script, mi, marks,
                   faultAt, ran, wrote>>
    /\ UNCHANGED othersR

\* challenge2.py:18-66: the node, the small and the large sandboxes, the
\* growth overlay; then the marking loop starts at the first small sandbox.
EvDraw ==
    /\ pc = "ev_draw"
    /\ pc' = "ev_mark"
    /\ mi' = 1
    /\ marks' = {}
    /\ UNCHANGED <<dirs, unwritable, files, styleOK, script, fn, path, fig,
                   faultAt, ran, finished, wrote>>
    /\ UNCHANGED othersR

\* challenge2.py:67-74: one iteration of `for x in small_xs`.
EvMark ==
    /\ pc = "ev_mark"
    /\ IF mi <= Len(small_xs)
       THEN /\ marks' = IF small_xs[mi] + small_w > overlap_x
                        THEN marks \cup {mi} ELSE marks
            /\ mi' = mi + 1
            /\ pc' = "ev_mark"
       ELSE /\ pc' = "savefig"      \* lines 76-95 draw the arrow and title
            /\ UNCHANGED <<mi, marks>>
    /\ UNCHANGED <<dirs, unwritable, files, styleOK, script, fn, path, fig,
                   faultAt, ran, finished, wrote>>
    /\ UNCHANGED othersR

\* challenge2.py:105-171: draw_resource_stranding up to its savefig.
StDraw ==
    /\ pc = "st_draw"
    /\ pc' = "savefig"
    /\ UNCHANGED <<dirs, unwritable, files, styleOK, script, fn, path, fig,
                   mi, marks, faultAt,
                   ran, finished, wrote>>
    /\ UNCHANGED othersR

\* challenge2.py:181-206: draw_cpu_mem_ratio_hist up to its savefig.
RhDraw ==
    /\ pc = "rh_draw"
    /\ pc' = "savefig"
    /\ UNCHANGED <<dirs, unwritable, files, styleOK, script, fn, path, fig,
                   mi, marks, faultAt,
                   ran, finished, wrote>>
    /\ UNCHANGED othersR

\* variation.py:140-143  main: the two sample arrays, then
\* plot_figure(single_cpu, per_function_stds) with the default save_path.
VSynth ==
    /\ pc = "v_synth"
    /\ fn' = "plot_figure"
    /\ path' = DefaultSavePath
    /\ pc' = "pf_dirname"
    /\ UNCHANGED <<dirs, unwritable, files, styleOK, script, fig, mi, marks,
                   faultAt, ran, finished, wrote>>
    /\ UNCHANGED othersR

\* variation.py:88-90  dirpath = os.path.dirname(save_path);
\* if dirpath: os.makedirs(dirpath, exist_ok=True)
PfMakedirs ==
    /\ pc = "pf_dirname"
    /\ IF Dirname(path) # <<>>
       THEN IF MakedirsFaults(Dirname(path))
            THEN Raise("pf_style") /\ UNCHANGED dirs
            ELSE pc' = "pf_style" /\ dirs' = MakedirsResult(Dirname(path))
                                  /\ UNCHANGED faultAt
       ELSE pc' = "pf_style" /\ UNCHANGED <<dirs, faultAt>>
    /\ UNCHANGED <<unwritable, files, styleOK, script, fn, path, fig, mi,
                   marks, ran, finished, wrote>>
    /\ UNCHANGED othersR

\* variation.py:92-132  plt.style.use raises OSError for a style matplotlib
\* does not ship; the rest builds the two panels and their limits.
PfStyle ==
    /\ pc = "pf_style"
    /\ IF styleOK
       THEN pc' = "savefig" /\ UNCHANGED faultAt
       ELSE Raise("savefig")
    /\ UNCHANGED <<dirs, unwritable, files, styleOK, script, fn, path, fig,
                   mi, marks, ran, finished, wrote>>
    /\ UNCHANGED othersR

\* Control after a function's savefig returned.
AfterSave ==
    IF script = "challenge2" THEN "c2_main" ELSE "done"

\* challenge1.py:101, challenge2.py:96/172/207, variation.py:135  savefig.
\* The open may fail; with the file open the write may still fail part way
\* (no atomicity: a partial file stays behind).
Savefig ==
    /\ pc = "savefig"
    /\ \/ /\ SavefigFaults(path)
          /\ Raise(AfterSave)
          /\ UNCHANGED <<files, wrote>>
       \/ /\ ~SavefigFaults(path)
          /\ files' = (Resolve(path) :> FigureOf(fn)) @@ files
          /\ wrote' = wrote \cup {<<script, Resolve(path)>>}
          /\ pc' = AfterSave
          /\ UNCHANGED faultAt
       \/ /\ ~SavefigFaults(path)
          /\ files' = (Resolve(path) :> "partial") @@ files
          /\ wrote' = wrote \cup {<<script, Resolve(path)>>}
          /\ Raise(AfterSave)
    /\ finished' = IF pc' = "done" THEN finished \cup {script} ELSE finished
    /\ UNCHANGED <<dirs, unwritable, styleOK, script, fn, path, fig, mi,
                   marks, ran>>
    /\ UNCHANGED othersR

\* Every step a started script takes by itself.
ScriptStep ==
    \/ C1Makedirs \/ C1Figure
    \/ C2Makedirs \/ C2Main \/ EvDraw \/ EvMark \/ StDraw \/ RhDraw
    \/ VSynth \/ PfMakedirs \/ PfStyle
    \/ Savefig

\* The scripts run one after another, in any order, each at most once.
NextRun ==
    \/ \E s \in Scripts : StartScript(s)
    \/ ScriptStep

(***************************************************************************)
(* The exporting functions called directly, with any path.                 *)
(***************************************************************************)
Exporters == {"draw_eviction_amplification", "draw_resource_stranding",
              "draw_cpu_mem_ratio_hist", "plot_figure"}

CallPaths == {<<"fig.png">>, <<".", "fig.png">>, <<"out", "fig.png">>,
              <<"out", "sub", "fig.png">>}

\* import the module and call f(p): challenge2's functions after its line 10.
CallExporter(f, p) ==
    /\ pc = "idle"
    /\ script' = "call"
    /\ fn' = f
    /\ path' = p
    /\ pc' = IF f = "plot_figure" THEN EntryOf(f) ELSE "c2_makedirs"
    /\ UNCHANGED <<dirs, unwritable, files, styleOK, fig, mi, marks, faultAt,
                   ran, finished, wrote>>
    /\ UNCHANGED othersR

NextCall ==
    \/ \E f \in Exporters, p \in CallPaths : CallExporter(f, p)
    \/ C2Makedirs \/ EvDraw \/ EvMark \/ StDraw \/ RhDraw
    \/ PfMakedirs \/ PfStyle
    \/ Savefig

(***************************************************************************)
(* Fixed-point arithmetic.  In this part linear quantities and log-space   *)
(* quantities are both in units of 1/1000; variates are in tenths of a     *)
(* sigma.                                                                  *)
(***************************************************************************)
\* e^x for x >= 0 by its power series; every term is in units of 1/1000.
RECURSIVE ExpTerms(_, _, _, _)
ExpTerms(x, k, term, acc) ==
    IF term = 0 THEN acc
    ELSE ExpTerms(x, k + 1, (term * x) \div (k * 1000), acc + term)

\* np.exp: positive for every argument, e^-x = 1 / e^x.
ExpMilli(x) ==
    IF x >= 0 THEN ExpTerms(x, 1, 1000, 0)
    ELSE 1000000 \div ExpTerms(-x, 1, 1000, 0)

\* np.log of v > 0: the largest x in lo..hi with e^x <= v, by bisection.
RECURSIVE LnSearch(_, _, _)
LnSearch(v, lo, hi) ==
    IF hi - lo <= 1 THEN lo
    ELSE LET mid == (lo + hi) \div 2
         IN  IF ExpMilli(mid) <= v THEN LnSearch(v, mid, hi)
             ELSE LnSearch(v, lo, mid)

LnMilli(v) == LnSearch(v, -7000, 6000)

\* floor of the square root.
RECURSIVE SqrtSearch(_, _, _)
SqrtSearch(v, lo, hi) ==
    IF hi - lo <= 1 THEN lo
    ELSE LET mid == (lo + hi) \div 2
         IN  IF mid * mid <= v THEN SqrtSearch(v, mid, hi)
             ELSE SqrtSearch(v, lo, mid)

ISqrt(v) == SqrtSearch(v, 0, 46340)

\* np.concatenate of a list of arrays.
RECURSIVE Concat(_)
Concat(ss) == IF ss = <<>> THEN <<>> ELSE Head(ss) \o Concat(Tail(ss))

\* np.clip(a, lo, hi) on one element; None is passed as the value itself.
Clip(v, lo, hi) == Min2(Max2(v, lo), hi)

\* rng.normal(loc, scale) for the standard-normal variate z.
Normal(loc, scale, z) == loc + (scale * z) \div 10

\* rng.lognormal(mean, sigma) for the standard-normal variate z.
Lognormal(mean, sigma, z) == ExpMilli(mean + (sigma * z) \div 10)

\* a.std(ddof=1): sqrt(sum((a - mean)^2) / (n - 1)); the deviations are
\* squared in units of 1/100 to stay inside TLC's integers.
Std(a) ==
    LET n == Len(a)
        mean == SeqSum(a) \div n
        sq == [k \in 1..n |-> ((a[k] - mean) \div 10) * ((a[k] - mean) \div 10)]
    IN  10 * ISqrt(SeqSum(sq) \div (n - 1))

(***************************************************************************)
(* np.histogram, as ax.hist calls it: bin j holds the values v with        *)
(* edges[j] <= v < edges[j+1]; the last bin also holds v = edges[last].    *)
(* A value outside [edges[1], edges[last]] is in no bin.                   *)
(***************************************************************************)
InBinHalfOpen(v, edges, j) == edges[j] <= v /\ v < edges[j + 1]

InBin(v, edges, j) ==
    /\ edges[j] <= v
    /\ \/ v < edges[j + 1]
       \/ j = Len(edges) - 1 /\ v = edges[j + 1]

Histogram(a, edges) ==
    [j \in 1..(Len(edges) - 1) |->
        Cardinality({k \in 1..Len(a) : InBin(a[k], edges, j)})]

\* ax.hist draws one bar per bin, as high as the bin's count (in 1/1000).
BarsOf(counts) == [j \in 1..Len(counts) |-> 1000 * counts[j]]

\* np.linspace(lo, hi, num)
LinSpace(lo, hi, num) ==
    [k \in 1..num |-> lo + ((hi - lo) * (k - 1)) \div (num - 1)]

\* np.geomspace(lo, hi, num): linspace in log space, the end points exact.
GeomSpace(lo, hi, num) ==
    LET span == LnMilli((1000 * hi) \div lo)
    IN  [k \in 1..num |->
            IF k = 1 THEN lo
            ELSE IF k = num THEN hi
            ELSE (lo * ExpMilli((span * (k - 1)) \div (num - 1))) \div 1000]

(***************************************************************************)
(* The random generator.  numpy's bit generator is a deterministic         *)
(* function of its state; it is modelled by a 16-bit linear congruential   *)
(* generator.  A draw picks one of the listed outcomes.                    *)
(***************************************************************************)
Runs == {1, 2}

Lcg(g) == (g * 75 + 74) % 65536

\* np.random.default_rng(seed)
DefaultRng(seed) == Lcg(Lcg(seed % 65536))

Pick(g, S) == S[((g \div 16) % Len(S)) + 1]

RECURSIVE Stream(_, _, _)
Stream(g, S, k) ==
    IF k = 0 THEN <<>> ELSE <<Pick(g, S)>> \o Stream(Lcg(g), S, k - 1)

RECURSIVE Advance(_, _)
Advance(g, k) == IF k = 0 THEN g ELSE Advance(Lcg(g), k - 1)

\* Position of v in the list S.
IndexIn(S, v) == CHOOSE j \in 1..Len(S) : S[j] = v

\* The vectors of k outcomes from S, one for each multiset: the k draws of
\* one vectorised call are exchangeable, so each multiset of outcomes is
\* represented by its vector in the order of S.
SortedVectors(S, k) ==
    {v \in [1..k -> {S[j] : j \in 1..Len(S)}] :
        \A a \in 1..(k - 1) : IndexIn(S, v[a]) <= IndexIn(S, v[a + 1])}

AllVectors(S, k) == [1..k -> {S[j] : j \in 1..Len(S)}]

\* What a vectorised draw of k values can return from generator state g:
\* pairs <<values, generator state afterwards>>.
Outcomes(g, S, k, exchangeable) ==
    IF mode = "prng" THEN {<<Stream(g, S, k), Advance(g, k)>>}
    ELSE {<<v, g>> : v \in IF exchangeable THEN SortedVectors(S, k)
                           ELSE AllVectors(S, k)}

\* Standard-normal variates a draw is given, in tenths of a sigma.
ZSeq == <<-10 * ZMax, -31, 10 * ZMax>>
ZManySeq == <<-10 * ZMany, 10 * ZMany>>

\* rng.random(): uniform on [0, 1), in hundredths.
USeq == <<10, 90>>

\* The seed each script hands to default_rng.
RNG_SEED == 2025
EmbeddedSeed(s) ==
    CASE s = "challenge1" -> 7
      [] s = "challenge2" -> 42
      [] s = "variation"  -> RNG_SEED
      [] s = "synth_single_function_cpu_usage" -> RNG_SEED
      [] s = "synth_many_functions_std" -> RNG_SEED + 1

\* np.random.default_rng() without a seed: seeded from the system's entropy.
SeedFromEntropy(s, e) == DefaultRng(e)

\* challenge1.py:9, challenge2.py:181, variation.py:140, :27, :47
SeedGenerator(s, e) == DefaultRng(EmbeddedSeed(s))

(***************************************************************************)
(* Interpreter state of one run.                                           *)
(***************************************************************************)
Fresh(s, start) ==
    [script |-> s, pc |-> start, gen |-> 0,
     \* challenge1.py
     ci |-> 0, xs |-> <<>>, ys |-> <<>>, x |-> <<>>, y |-> <<>>,
     \* challenge2.py, draw_cpu_mem_ratio_hist
     ratios |-> <<>>, drawn |-> 0,
     \* both histograms
     counts |-> <<>>, heights |-> <<>>,
     \* variation.py
     n |-> 0, num_functions |-> 0, min_inv |-> 0, max_inv |-> 0,
     single_cpu |-> <<>>, stds |-> <<>>, per_function_stds |-> <<>>,
     n_i |-> 0, base_scale |-> 0, var_scale |-> 0, z |-> <<>>,
     cpu_i |-> <<>>, assigned |-> <<>>]

StartOf(s) ==
    CASE s = "challenge1" -> "c1_rng"
      [] s = "challenge2" -> "rh_rng"
      [] s = "variation"  -> "v_rng"
      [] s = "synth_single_function_cpu_usage" -> "ss_rng"
      [] s = "synth_many_functions_std" -> "sm_rng"

Off == Fresh("off", "off")

\* One run's variables change; nothing else does.
Set(i, r) ==
    /\ st' = [st EXCEPT ![i] = r]
    /\ UNCHANGED <<mode, entropy>>
    /\ UNCHANGED othersS

\* The generator a script creates, kept only where draws depend on it.
NewGenerator(i) ==
    IF mode = "prng" THEN SeedGenerator(st[i].script, entropy[i]) ELSE 0

(***************************************************************************)
(* challenge1.py                                                           *)
(***************************************************************************)
\* challenge1.py:13-17, center and scale as (CPU, memory).
clusters ==
    << [center |-> <<300, 400>>,   scale |-> <<80, 100>>,  count |-> 90],
       [center |-> <<900, 1200>>,  scale |-> <<120, 180>>, count |-> 90],
       [center |-> <<1600, 2100>>, scale |-> <<150, 250>>, count |-> 60] >>

\* The number of samples drawn for a cluster.
CountOf(c) == Min2(c.count, ClusterCap)

\* challenge1.py:35  bins = np.linspace(0.0, 2.4, 25)
Challenge1Bins == LinSpace(0, 2400, 25)

\* challenge1.py:47
splits == <<600, 1350>>

\* sqrt(2 * pi), challenge1.py:60
Sqrt2Pi == 2507

\* challenge1.py:52-62  counts_smooth, in thousandths of a count.
CountsSmooth(n_total, edges) ==
    LET bin_w == edges[2] - edges[1]
        mu == (splits[1] + splits[2]) \div 2
        sigma == (edges[Len(edges)] - edges[1]) \div 6
        norm_const == (sigma * Sqrt2Pi) \div 1000
        center(j) == (edges[j] + edges[j + 1]) \div 2
        u(j) == ((center(j) - mu) * 1000) \div sigma
        pdf(j) == (ExpMilli(-((u(j) * u(j)) \div 2000)) * 1000) \div norm_const
    IN  [j \in 1..(Len(edges) - 1) |-> (n_total * bin_w * pdf(j)) \div 1000]

\* challenge1.py:9-19
S1Rng(i) ==
    /\ st[i].pc = "c1_rng"
    /\ Set(i, [st[i] EXCEPT !.gen = NewGenerator(i), !.ci = 1,
                            !.pc = "c1_loop"])

\* challenge1.py:20-25  one iteration of `for c in clusters`.
S1Cluster(i) ==
    /\ st[i].pc = "c1_loop"
    /\ st[i].ci <= Len(clusters)
    /\ LET c == clusters[st[i].ci] IN
       \E ox \in Outcomes(st[i].gen, ZSeq, CountOf(c), TRUE) :
       \E oy \in Outcomes(ox[2], ZSeq, CountOf(c), TRUE) :
          Set(i, [st[i] EXCEPT
                    !.xs = Append(@, [k \in 1..CountOf(c) |->
                              Normal(c.center[1], c.scale[1], ox[1][k])]),
                    !.ys = Append(@, [k \in 1..CountOf(c) |->
                              Normal(c.center[2], c.scale[2], oy[1][k])]),
                    !.gen = oy[2],
                    !.ci = @ + 1])

\* challenge1.py:27-29  x = np.concatenate(xs); y = np.clip(..., 0.15, None)
S1Concat(i) ==
    /\ st[i].pc = "c1_loop"
    /\ st[i].ci > Len(clusters)
    /\ LET ycat == Concat(st[i].ys) IN
       Set(i, [st[i] EXCEPT
                 !.x = Concat(st[i].xs),
                 !.y = [k \in 1..Len(ycat) |-> Max2(ycat[k], 150)],
                 !.pc = "c1_hist"])

\* challenge1.py:35-43  counts, edges, patches = ax.hist(x, bins=bins, ...)
S1Hist(i) ==
    /\ st[i].pc = "c1_hist"
    /\ LET counts == Histogram(st[i].x, Challenge1Bins) IN
       Set(i, [st[i] EXCEPT !.counts = counts, !.heights = BarsOf(counts),
                            !.pc = "c1_smooth"])

\* challenge1.py:52-66  every bar's height is set to counts_smooth.
S1Smooth(i) ==
    /\ st[i].pc = "c1_smooth"
    /\ Set(i, [st[i] EXCEPT
                 !.heights = CountsSmooth(Len(st[i].x), Challenge1Bins),
                 !.pc = "done"])

(***************************************************************************)
(* challenge2.py, draw_cpu_mem_ratio_hist                                  *)
(***************************************************************************)
\* challenge2.py:183-186: the four parts of the mixture; share in percent.
RatioParts ==
    << [kind |-> "normal",    loc |-> 500,  scale |-> 150, share |-> 35],
       [kind |-> "normal",    loc |-> 1000, scale |-> 200, share |-> 35],
       [kind |-> "normal",    loc |-> 2000, scale |-> 350, share |-> 25],
       [kind |-> "lognormal", loc |-> LnMilli(4000), scale |-> 350,
        share |-> 5] >>

\* size = int(n * share)
PartSize(n, part) == (n * part.share) \div 100

\* challenge2.py:192  bins = np.geomspace(0.05, 8.0, 40)
RatioBins == GeomSpace(50, 8000, 40)

\* challenge2.py:181
RhRng(i) ==
    /\ st[i].pc = "rh_rng"
    /\ Set(i, [st[i] EXCEPT !.gen = NewGenerator(i), !.drawn = 0,
                            !.pc = "rh_draws"])

\* challenge2.py:182-187: the next argument of np.concatenate.
RhDraws(i) ==
    /\ st[i].pc = "rh_draws"
    /\ st[i].drawn < Len(RatioParts)
    /\ LET part == RatioParts[st[i].drawn + 1]
           size == PartSize(RatioN, part)
       IN  \E o \in Outcomes(st[i].gen, ZSeq, size, TRUE) :
             Set(i, [st[i] EXCEPT
                       !.ratios = @ \o [k \in 1..size |->
                           IF part.kind = "normal"
                           THEN Normal(part.loc, part.scale, o[1][k])
                           ELSE Lognormal(part.loc, part.scale, o[1][k])],
                       !.gen = o[2],
                       !.drawn = @ + 1])

\* challenge2.py:188  ratios = ratios[ratios > 0.02]
RhFilter(i) ==
    /\ st[i].pc = "rh_draws"
    /\ st[i].drawn = Len(RatioParts)
    /\ Set(i, [st[i] EXCEPT
                 !.ratios = SelectSeq(@, LAMBDA v : v > 20),
                 !.pc = "rh_clip"])

\* challenge2.py:189  ratios = np.clip(ratios, 0.05, 8.0)
RhClip(i) ==
    /\ st[i].pc = "rh_clip"
    /\ Set(i, [st[i] EXCEPT
                 !.ratios = [k \in 1..Len(@) |-> Clip(@[k], 50, 8000)],
                 !.pc = "rh_hist"])

\* challenge2.py:192-196  ax.hist(ratios, bins=bins, ...)
RhHist(i) ==
    /\ st[i].pc = "rh_hist"
    /\ LET counts == Histogram(st[i].ratios, RatioBins) IN
       Set(i, [st[i] EXCEPT !.counts = counts, !.heights = BarsOf(counts),
                            !.pc = "done"])

(***************************************************************************)
(* variation.py                                                            *)
(***************************************************************************)
\* variation.py:30-32
comps_mu == <<-1100, -100, 600>>
comps_sigma == <<350, 250, 400>>

\* The integers low..high as a list of outcomes.
RangeSeq(low, high) == [k \in 1..(high - low + 1) |-> low + k - 1]

\* Positions of the array z that hold component c.
Mask(z, c) == {k \in 1..Len(z) : z[k] = c}

\* variation.py:70  z == 0
FirstMask(z) == Mask(z, 0)

\* The second mask written as the first.
SecondMaskRepeatsFirst(z) == Mask(z, 0)

\* variation.py:71  z == 1
SecondMask(z) == Mask(z, 1)

\* The positions of a mask in ascending order.
MaskSeq(m) == Sort(CHOOSE s \in [1..Cardinality(m) -> m] :
                      \A a, b \in 1..Cardinality(m) : a # b => s[a] # s[b])

\* cpu_i[mask] = values: the j-th value goes to the j-th position of mask.
AssignMasked(a, m, values) ==
    LET pos == MaskSeq(m)
    IN  [k \in 1..Len(a) |->
            IF k \in m THEN values[CHOOSE j \in 1..Len(pos) : pos[j] = k]
            ELSE a[k]]

\* np.log(max(1e-6, v)); 1e-6 is below the resolution and stands as 1/1000.
LogOfAtLeastTiny(v) == LnMilli(Max2(1, v))

\* variation.py:140-141  main: rng = np.random.default_rng(RNG_SEED), then
\* the call synth_single_function_cpu_usage(n=6000, rng=rng).
VRng(i) ==
    /\ st[i].pc = "v_rng"
    /\ Set(i, [st[i] EXCEPT !.gen = NewGenerator(i), !.n = SingleN,
                            !.pc = "v_single"])

\* variation.py:26-27  synth_single_function_cpu_usage called without rng.
SsRng(i) ==
    /\ st[i].pc = "ss_rng"
    /\ Set(i, [st[i] EXCEPT !.gen = NewGenerator(i), !.pc = "v_single"])

\* variation.py:30-36  z = rng.choice(3, size=n, p=weights);
\* cpu = rng.lognormal(mean=comps_mu[z], sigma=comps_sigma[z]); return cpu
VSingle(i) ==
    /\ st[i].pc = "v_single"
    /\ \E oz \in Outcomes(st[i].gen, <<1, 2, 3>>, st[i].n, FALSE) :
       \E ov \in Outcomes(oz[2], ZSeq, st[i].n, FALSE) :
          Set(i, [st[i] EXCEPT
                    !.single_cpu = [k \in 1..st[i].n |->
                        Lognormal(comps_mu[oz[1][k]], comps_sigma[oz[1][k]],
                                  ov[1][k])],
                    !.gen = ov[2],
                    !.pc = IF st[i].script = "variation" THEN "v_call_many"
                           ELSE "done"])

\* variation.py:142  main: synth_many_functions_std(num_functions=500,
\* min_inv=300, max_inv=5000, rng=rng)
VCallMany(i) ==
    /\ st[i].pc = "v_call_many"
    /\ Set(i, [st[i] EXCEPT !.num_functions = NumFunctions,
                            !.min_inv = MinInv, !.max_inv = MaxInv,
                            !.stds = <<>>, !.pc = "v_many"])

\* variation.py:46-49  synth_many_functions_std called without rng.
SmRng(i) ==
    /\ st[i].pc = "sm_rng"
    /\ Set(i, [st[i] EXCEPT !.gen = NewGenerator(i), !.stds = <<>>,
                            !.pc = "v_many"])

\* variation.py:50-60  a new iteration: n_i, base_scale, var_scale and the
\* choice of the profile.
VFunc(i) ==
    /\ st[i].pc = "v_many"
    /\ Len(st[i].stds) < st[i].num_functions
    /\ \E on \in Outcomes(st[i].gen, RangeSeq(st[i].min_inv, st[i].max_inv),
                           1, FALSE) :
       \E ob \in Outcomes(on[2], ZManySeq, 1, FALSE) :
       \E ow \in Outcomes(ob[2], ZManySeq, 1, FALSE) :
       \E ou \in Outcomes(ow[2], USeq, 1, FALSE) :
          Set(i, [st[i] EXCEPT
                    !.n_i = on[1][1],
                    !.base_scale = Lognormal(-400, 500, ob[1][1]),
                    !.var_scale = Lognormal(-1000, 600, ow[1][1]),
                    !.gen = ou[2],
                    !.z = <<>>, !.cpu_i = <<>>, !.assigned = <<>>,
                    !.pc = IF ou[1][1] < 35 THEN "v_multi" ELSE "v_uni"])

\* variation.py:61-69  z = rng.choice([0, 1], size=n_i, p=weights);
\* cpu_i = np.empty(n_i): whatever the memory held.
VMultiZ(i) ==
    /\ st[i].pc = "v_multi"
    /\ \E oz \in Outcomes(st[i].gen, <<0, 1>>, st[i].n_i, FALSE) :
          Set(i, [st[i] EXCEPT
                    !.z = oz[1],
                    !.gen = oz[2],
                    !.cpu_i = [k \in 1..st[i].n_i |-> -entropy[i]],
                    !.assigned = [k \in 1..st[i].n_i |-> 0],
                    !.pc = "v_multi_a"])

\* variation.py:70  cpu_i[z == 0] = rng.lognormal(mu1, sigma1, (z == 0).sum())
VMultiA(i) ==
    /\ st[i].pc = "v_multi_a"
    /\ LET m == FirstMask(st[i].z)
           mu1 == LogOfAtLeastTiny((600 * st[i].base_scale) \div 1000)
           sigma1 == 250 + (600 * st[i].var_scale) \div 1000
       IN  \E o \in Outcomes(st[i].gen, ZManySeq, Cardinality(m), FALSE) :
             Set(i, [st[i] EXCEPT
                       !.cpu_i = AssignMasked(@, m,
                           [j \in 1..Cardinality(m) |->
                               Lognormal(mu1, sigma1, o[1][j])]),
                       !.assigned = [k \in 1..Len(@) |->
                           IF k \in m THEN @[k] + 1 ELSE @[k]],
                       !.gen = o[2],
                       !.pc = "v_multi_b"])

\* variation.py:71  cpu_i[z == 1] = rng.lognormal(mu2, sigma2, (z == 1).sum())
VMultiB(i) ==
    /\ st[i].pc = "v_multi_b"
    /\ LET m == SecondMask(st[i].z)
           mu2 == LogOfAtLeastTiny((1600 * st[i].base_scale) \div 1000)
           sigma2 == 300 + (800 * st[i].var_scale) \div 1000
       IN  \E o \in Outcomes(st[i].gen, ZManySeq, Cardinality(m), FALSE) :
             Set(i, [st[i] EXCEPT
                       !.cpu_i = AssignMasked(@, m,
                           [j \in 1..Cardinality(m) |->
                               Lognormal(mu2, sigma2, o[1][j])]),
                       !.assigned = [k \in 1..Len(@) |->
                           IF k \in m THEN @[k] + 1 ELSE @[k]],
                       !.gen = o[2],
                       !.pc = "v_std"])

\* variation.py:72-75  the single-mode profile.
VUni(i) ==
    /\ st[i].pc = "v_uni"
    /\ LET mu == LogOfAtLeastTiny(st[i].base_scale)
           sigma == 250 + (900 * st[i].var_scale) \div 1000
       IN  \E o \in Outcomes(st[i].gen, ZManySeq, st[i].n_i, FALSE) :
             Set(i, [st[i] EXCEPT
                       !.cpu_i = [k \in 1..st[i].n_i |->
                                     Lognormal(mu, sigma, o[1][k])],
                       !.assigned = [k \in 1..st[i].n_i |-> 1],
                       !.gen = o[2],
                       !.pc = "v_std"])

\* variation.py:77  stds.append(cpu_i.std(ddof=1))
VStd(i) ==
    /\ st[i].pc = "v_std"
    /\ Set(i, [st[i] EXCEPT !.stds = Append(@, Std(st[i].cpu_i)),
                            !.pc = "v_many"])

\* variation.py:79, 142  per_function_stds = np.array(stds)
VReturn(i) ==
    /\ st[i].pc = "v_many"
    /\ Len(st[i].stds) = st[i].num_functions
    /\ Set(i, [st[i] EXCEPT !.per_function_stds = st[i].stds,
                            !.pc = "done"])

\* The steps of challenge1.py and of draw_cpu_mem_ratio_hist.
NextHist ==
    \E i \in Runs :
        \/ S1Rng(i) \/ S1Cluster(i) \/ S1Concat(i) \/ S1Hist(i) \/ S1Smooth(i)
        \/ RhRng(i) \/ RhDraws(i) \/ RhFilter(i) \/ RhClip(i) \/ RhHist(i)

\* The steps of variation.py's two synthesizers.
NextVariation ==
    \E i \in Runs :
        \/ SsRng(i) \/ VSingle(i)
        \/ SmRng(i) \/ VFunc(i) \/ VMultiZ(i) \/ VMultiA(i)
        \/ VMultiB(i) \/ VUni(i) \/ VStd(i) \/ VReturn(i)

\* The steps of variation.main around them.
NextVariationMain == \E i \in Runs : VRng(i) \/ VCallMany(i)

NextSamples == NextHist \/ NextVariation \/ NextVariationMain

\* What the system's entropy source may hold.
EntropySet == {1, 2}

IdleS ==
    /\ mode = "any"
    /\ entropy = [i \in Runs |-> 1]
    /\ st = [i \in Runs |-> Off]

\* What a run is started on: a script, or one of variation.py's
\* synthesizers called with its arguments and without a generator.
Entries ==
    {Fresh(s, StartOf(s)) : s \in Scripts}
    \cup {[Fresh("synth_single_function_cpu_usage", "ss_rng") EXCEPT !.n = n] :
             n \in 0..SingleN}
    \cup {[Fresh("synth_many_functions_std", "sm_rng") EXCEPT
               !.num_functions = nf, !.min_inv = MinInv, !.max_inv = hi] :
             nf \in 0..NumFunctions, hi \in MinInv..MaxInv}

HistScripts == {"challenge1", "challenge2"}
Synthesizers == {"synth_single_function_cpu_usage", "synth_many_functions_std"}

\* One run, from entry r; each draw may return any outcome.
InitSamples(r) ==
    /\ mode = "any"
    /\ entropy \in [Runs -> EntropySet]
    /\ entropy[2] = 1
    \* only synth_many_functions_std has memory it did not write (np.empty)
    /\ r.script # "synth_many_functions_std" => entropy[1] = 1
    /\ st = [i \in Runs |-> IF i = 1 THEN r ELSE Off]

InitHist ==
    /\ \E r \in Entries : r.script \in HistScripts /\ InitSamples(r)
    /\ IdleQ /\ IdleR

InitVariation ==
    /\ \E r \in Entries : r.script \in Synthesizers /\ InitSamples(r)
    /\ IdleQ /\ IdleR

\* Two runs from the same entry on the seeded generator, the system's
\* entropy being whatever it is for each.
InitRepro ==
    /\ mode = "prng"
    /\ entropy \in [Runs -> EntropySet]
    /\ \E r \in Entries : st = [i \in Runs |-> r]

(***************************************************************************)
(* Specifications.                                                         *)
(***************************************************************************)
InitQuantile == InitQ /\ IdleR /\ IdleS
SpecQuantile == InitQuantile /\ [][NextQ]_vars

InitRun == InitR /\ IdleQ /\ IdleS
SpecRun == InitRun /\ [][NextRun]_vars

\* The interpreter keeps executing a started script: no step waits on
\* anything.
FairSpecRun == InitRun /\ [][NextRun]_vars /\ WF_vars(ScriptStep)

SpecCall == InitRun /\ [][NextCall]_vars

\* challenge1.py and draw_cpu_mem_ratio_hist, every outcome of every draw.
SpecHist == InitHist /\ [][NextHist]_vars

\* variation.py, every outcome of every draw.
SpecVariation == InitVariation /\ [][NextVariation]_vars

InitReproAll == InitRepro /\ IdleQ /\ IdleR
SpecRepro == InitReproAll /\ [][NextSamples]_vars

\* Every element B has beyond A is at least the maximum of A.
GrowsAtTop == \A j \in (Len(qA) + 1)..Len(qB) : qB[j] >= SeqMax(qA)

\* C7 (as stated): whenever sample array A is a prefix of sample array B,
\* quantile(A, 0.995) <= quantile(B, 0.995).
C7_QuantileMonotoneInPrefix ==
    (qpc = "done" /\ IsPrefix(qA, qB)) => qXmaxA <= qXmaxB

\* C7 (amended): whenever A is a prefix of B and every sample B adds to A is
\* at least the maximum of A, quantile(A, 0.995) <= quantile(B, 0.995).
C7_QuantileMonotoneWhenGrowingAtTop ==
    (qpc = "done" /\ IsPrefix(qA, qB) /\ GrowsAtTop) => qXmaxA <= qXmaxB

\* C7 witness: both limits computed, B strictly longer than A, every added
\* sample at least max(A), and the limit strictly larger.
C7_Witness ==
    /\ qpc = "done"
    /\ Len(qA) >= 2
    /\ Len(qB) > Len(qA)
    /\ GrowsAtTop
    /\ qXmaxA < qXmaxB


(***************************************************************************)
(* Claims about the scripts' runs (SpecRun, FairSpecRun, SpecCall).        *)
(***************************************************************************)
\* The file at p holds a complete figure written by script s.
Written(s, p) ==
    /\ <<s, Resolve(p)>> \in wrote
    /\ Resolve(p) \in DOMAIN files
    /\ files[Resolve(p)] # "partial"

\* C4: every run of a script terminates (at its last line, or at the step
\* that faulted), and a run that reaches its last line has written every
\* output file of the script.
C4_TerminatesWithOutputs ==
    /\ [](pc = "done" => \A p \in OutputsOf(script) : Written(script, p))
    /\ (~Terminated) ~> (pc = "done" \/ faultAt # "")

\* C4 witness: challenge2.py at its last line with its three files written.
C4_Witness ==
    /\ script = "challenge2"
    /\ pc = "done"
    /\ \A p \in OutputsOf("challenge2") : Written("challenge2", p)

\* C5 (as stated): whenever a figure is about to be saved to a path, the
\* parent directory of that path exists, for any path handed to
\* plot_figure, draw_eviction_amplification, draw_resource_stranding and
\* draw_cpu_mem_ratio_hist.
C5_ParentExistsAtSave ==
    pc = "savefig" => Resolve(Dirname(path)) \in dirs

\* C6: a fault is neither caught nor retried: the script is at no position
\* any more, in challenge2.main no figure after the faulting one has been
\* written and the files of the figures before it hold their figures; and
\* nothing of the run's state changes afterwards.
C6_FaultTerminatesScript ==
    /\ [](faultAt # "" =>
            /\ pc = "faulted"
            /\ script = "challenge2" =>
                 /\ \A j \in (fig + 1)..Len(MainFigures) :
                        <<script, Resolve(MainFigures[j][2])>> \notin wrote
                 /\ \A j \in 1..(fig - 1) :
                        /\ Resolve(MainFigures[j][2]) \in DOMAIN files
                        /\ files[Resolve(MainFigures[j][2])]
                               = FigureOf(MainFigures[j][1]))
    /\ [][(faultAt # "" /\ faultAt' # "") =>
             UNCHANGED <<pc, files, dirs, wrote, fig, faultAt>>]_vars

\* C6 witness: challenge2.main faulted while saving its second figure, the
\* first figure's file in place.
C6_Witness ==
    /\ script = "challenge2"
    /\ faultAt = "savefig"
    /\ pc = "faulted"
    /\ fig = 2
    /\ Written("challenge2", MainFigures[1][2])

\* C9 (as stated): when draw_eviction_amplification has run its marking
\* loop, at least two of the four small sandboxes carry the eviction mark,
\* the marked ones being exactly those whose right edge exceeds overlap_x.
C9_UpscaleEvictsMany ==
    (fn = "draw_eviction_amplification" /\ pc = "savefig") =>
        /\ Cardinality(marks) >= 2
        /\ marks = {i \in 1..Len(small_xs) : small_xs[i] + small_w > overlap_x}

\* C10 (as stated): once every script has run to its last line, some script
\* other than variation.py has written usage_variation.pdf.
C10_AnotherScriptWritesUsageVariation ==
    finished = Scripts =>
        \E s \in Scripts \ {"variation"} :
            <<s, Resolve(DefaultSavePath)>> \in wrote

\* C10 (amended): no script other than variation.py writes
\* usage_variation.pdf, and once variation.py has run to its last line the
\* file holds the two-panel figure, whatever ran before or after it.
C10_OnlyVariationWritesUsageVariation ==
    /\ \A w \in wrote :
          w[2] = Resolve(DefaultSavePath) => w[1] = "variation"
    /\ "variation" \in finished =>
          /\ Resolve(DefaultSavePath) \in DOMAIN files
          /\ files[Resolve(DefaultSavePath)] = FigureOf("plot_figure")

\* C10 witness: all three scripts ran to their last line, variation.py not
\* last, and usage_variation.pdf holds the two-panel figure.
C10_Witness ==
    /\ finished = Scripts
    /\ script # "variation"
    /\ files[Resolve(DefaultSavePath)] = FigureOf("plot_figure")


(***************************************************************************)
(* Claims about the sample arrays (SpecSamples, SpecRepro).                *)
(***************************************************************************)
NonNegative(a) == \A k \in 1..Len(a) : a[k] >= 0

\* C1 (as stated): every value of every generated array that represents a
\* usage quantity is non-negative, for every outcome of the draws: x and y
\* of challenge1.py, the array of synth_single_function_cpu_usage, every
\* cpu_i handed to std, and the ratios after the filter and the clip.
C1_UsageNonNegative ==
    \A i \in Runs :
        /\ NonNegative(st[i].x)
        /\ NonNegative(st[i].y)
        /\ NonNegative(st[i].single_cpu)
        /\ st[i].pc = "v_std" => NonNegative(st[i].cpu_i)
        /\ st[i].pc \in {"rh_hist", "done"} => NonNegative(st[i].ratios)

\* The array a script hands to ax.hist.
Histogrammed(i) ==
    IF st[i].script = "challenge1" THEN st[i].x ELSE st[i].ratios

\* C2 (as stated): when a script with an explicit-bin histogram is through,
\* the counts sum to the number of samples histogrammed and the bars are as
\* high as the counts.
C2_CountsAccountForEverySample ==
    \A i \in Runs :
        (st[i].pc = "done" /\ st[i].script \in {"challenge1", "challenge2"}) =>
            /\ SeqSum(st[i].counts) = Len(Histogrammed(i))
            /\ st[i].heights = BarsOf(st[i].counts)

\* C2 (amended): in draw_cpu_mem_ratio_hist the counts sum to the number of
\* ratios kept after the filter and the clip and the bars are as high as the
\* counts; in challenge1.py the counts sum to the number of values of x that
\* lie in [0.0, 2.4] and the bars are as high as counts_smooth.
C2_CountsAccountForSamplesInRange ==
    \A i \in Runs :
        /\ (st[i].pc = "done" /\ st[i].script = "challenge2") =>
              /\ SeqSum(st[i].counts) = Len(st[i].ratios)
              /\ st[i].heights = BarsOf(st[i].counts)
        /\ (st[i].pc = "done" /\ st[i].script = "challenge1") =>
              /\ SeqSum(st[i].counts) =
                   Cardinality({k \in 1..Len(st[i].x) :
                                   0 <= st[i].x[k] /\ st[i].x[k] <= 2400})
              /\ st[i].heights = CountsSmooth(Len(st[i].x), Challenge1Bins)

\* C2 witness: the ratio histogram drawn after the filter dropped a ratio,
\* with a ratio clipped to each end of the bin range.
C2_Witness ==
    /\ st[1].script = "challenge2"
    /\ st[1].pc = "done"
    /\ 0 < Len(st[1].ratios)
    /\ Len(st[1].ratios) < RatioN
    /\ \E k \in 1..Len(st[1].ratios) : st[1].ratios[k] = 50
    /\ \E k \in 1..Len(st[1].ratios) : st[1].ratios[k] = 8000

\* C3: two runs of the same script end with the same arrays, whatever each
\* run could have read from the system.
C3_SameArraysOnEveryRun ==
    (st[1].pc = "done" /\ st[2].pc = "done") =>
        /\ st[1].x = st[2].x
        /\ st[1].y = st[2].y
        /\ st[1].ratios = st[2].ratios
        /\ st[1].single_cpu = st[2].single_cpu
        /\ st[1].per_function_stds = st[2].per_function_stds

\* C3 witness: two finished runs of variation.py under different entropy.
C3_Witness ==
    /\ st[1].pc = "done" /\ st[2].pc = "done"
    /\ st[1].script = "variation"
    /\ entropy[1] # entropy[2]
    /\ Len(st[1].single_cpu) > 0
    /\ Len(st[1].per_function_stds) > 0

\* C8: synth_single_function_cpu_usage(n) returns n values;
\* synth_many_functions_std returns num_functions standard deviations, one
\* appended per iteration, each over n_i samples, min_inv <= n_i <= max_inv,
\* every one of them assigned exactly once.
C8_SampleCounts ==
    \A i \in Runs :
        /\ (st[i].pc = "done"
              /\ st[i].script = "synth_single_function_cpu_usage") =>
              Len(st[i].single_cpu) = st[i].n
        /\ st[i].pc \in {"v_many", "v_multi", "v_multi_a", "v_multi_b",
                         "v_uni", "v_std"} =>
              Len(st[i].stds) <= st[i].num_functions
        /\ st[i].pc = "v_std" =>
              /\ Len(st[i].stds) < st[i].num_functions
              /\ Len(st[i].cpu_i) = st[i].n_i
              /\ st[i].min_inv <= st[i].n_i /\ st[i].n_i <= st[i].max_inv
              /\ \A k \in 1..st[i].n_i : st[i].assigned[k] = 1
        /\ (st[i].pc = "done" /\ st[i].script = "synth_many_functions_std") =>
              Len(st[i].per_function_stds) = st[i].num_functions

\* C8 witness: the multi-modal branch with both components present, about
\* to take the standard deviation.
C8_Witness ==
    /\ st[1].pc = "v_std"
    /\ \E a, b \in 1..Len(st[1].z) : st[1].z[a] = 0 /\ st[1].z[b] = 1

====
